---- MODULE Spec2Model ----
(***************************************************************************)
(* A model of app.py: the Flask query service over ns.annotations_terms,   *)
(* ns.coordinates and ns.metadata.  Strings are sequences of one-character *)
(* strings so that strip, lower, replace, split and int are computed.      *)
(***************************************************************************)
EXTENDS Integers, Sequences, FiniteSets, TLC

VARIABLES
    db_url,        \* os.getenv("DB_URL") is set (static environment)
    _engine,       \* the module global _engine: "None" or "Engine"
    annotations,   \* rows of ns.annotations_terms
    coordinates,   \* rows of ns.coordinates
    metadata,      \* rows of ns.metadata, one per study_id
    pc,            \* position of the request being served
    eng,           \* the view function's local eng: "None" or "Engine"
    route,         \* the view function the request was routed to
    args,          \* the path parameters, <<a, b>>
    display,       \* <<term_a_display, term_b_display>> or the coordinate echoes
    bound,         \* the parameters bound into the statements
    pool_out,      \* connections of the engine's pool currently checked out
    begun,         \* eng.begin() calls that succeeded in this request
    stmt_txn,      \* for each executed statement, the begin it ran under
    rows_a,        \* result of the first statement
    rows_b,        \* result of the second statement
    response,      \* what the request answered
    raised,        \* the exception raised while serving the request, or "none"
    n_x,           \* normalize_term harness: the input string
    n_y,           \* normalize_term harness: a case/whitespace variant of n_x
    n_out          \* normalize_term harness: the results

storeVars == <<db_url, _engine, annotations, coordinates, metadata>>
reqVars   == <<pc, eng, route, args, display, bound, pool_out, begun, stmt_txn,
               rows_a, rows_b, response, raised>>
normVars  == <<n_x, n_y, n_out>>
vars      == <<storeVars, reqVars, normVars>>

-----------------------------------------------------------------------------
(* Bounds *)

MaxStudy == 2          \* study_id ranges over 1..MaxStudy
MaxContrast == 2       \* contrast_id ranges over 1..MaxContrast
MaxRows == 2           \* rows in annotations_terms plus coordinates
MaxBody == 2           \* length of the free part of a normalize_term input

\* The LIMIT of each statement, scaled down so that a store of MaxRows rows
\* can exceed it; the order of the program's caps is kept
\* (100 <= 1000 <= 10000 <= 100000).
LimitIntersect == 1    \* LIMIT 100
LimitLocations == 1    \* LIMIT 100
LimitDissociate == 2   \* LIMIT 1000
LimitStudies == 3      \* LIMIT 10000
LimitSample == 4       \* LIMIT 100000

-----------------------------------------------------------------------------
(* Strings *)

Min(S) == CHOOSE m \in S : \A k \in S : m <= k
Max(S) == CHOOSE m \in S : \A k \in S : m >= k

Whitespace == {" ", "\t"}

UpperLetters == <<"A","B","C","D","E","F","G","H","I","J","K","L","M",
                  "N","O","P","Q","R","S","T","U","V","W","X","Y","Z">>
LowerLetters == <<"a","b","c","d","e","f","g","h","i","j","k","l","m",
                  "n","o","p","q","r","s","t","u","v","w","x","y","z">>

LowerChar(c) ==
    IF \E i \in 1..26 : UpperLetters[i] = c
    THEN LowerLetters[CHOOSE i \in 1..26 : UpperLetters[i] = c]
    ELSE c

UpperChar(c) ==
    IF \E i \in 1..26 : LowerLetters[i] = c
    THEN UpperLetters[CHOOSE i \in 1..26 : LowerLetters[i] = c]
    ELSE c

RECURSIVE lower(_)
lower(s) == IF s = <<>> THEN <<>> ELSE <<LowerChar(Head(s))>> \o lower(Tail(s))

strip(s) ==
    LET keep == {i \in 1..Len(s) : s[i] \notin Whitespace}
    IN  IF keep = {} THEN <<>> ELSE SubSeq(s, Min(keep), Max(keep))

startswith(s, p) == Len(s) >= Len(p) /\ SubSeq(s, 1, Len(p)) = p

RECURSIVE replace(_, _, _)
replace(s, old, new) ==
    IF s = <<>> THEN <<>>
    ELSE <<IF Head(s) = old THEN new ELSE Head(s)>> \o replace(Tail(s), old, new)

\* s.split(sep): the pieces between the occurrences of sep, empty ones kept.
RECURSIVE split(_, _)
split(s, sep) ==
    LET at == {i \in 1..Len(s) : s[i] = sep}
    IN  IF at = {} THEN <<s>>
        ELSE <<SubSeq(s, 1, Min(at) - 1)>>
             \o split(SubSeq(s, Min(at) + 1, Len(s)), sep)

-----------------------------------------------------------------------------
(* normalize_term *)

prefix == <<"t","e","r","m","s","_","a","b","s","t","r","a","c","t","_",
            "t","f","i","d","f","_","_">>

\* normalize_term without .lower()
normalize_term_nolower(term) ==
    LET t == strip(term)
    IN  IF ~startswith(t, prefix) THEN prefix \o t ELSE t

normalize_term(term) ==
    LET t == lower(strip(term))
    IN  IF ~startswith(t, prefix) THEN prefix \o t ELSE t

\* term.replace("_", " ").strip().lower()
display_term(term) == lower(strip(replace(term, "_", " ")))

-----------------------------------------------------------------------------
(* int() and the coordinate tokens *)

Digits == <<"0","1","2","3","4","5","6","7","8","9">>

IsDigit(c) == \E i \in 1..10 : Digits[i] = c
DigitVal(c) == (CHOOSE i \in 1..10 : Digits[i] = c) - 1

\* The digits of an int() argument: surrounding whitespace and one sign removed.
IntBody(s) ==
    LET t == strip(s)
    IN  IF t # <<>> /\ Head(t) \in {"+", "-"} THEN Tail(t) ELSE t

\* int(s) does not raise ValueError
IsInt(s) ==
    /\ IntBody(s) # <<>>
    /\ \A i \in 1..Len(IntBody(s)) : IsDigit(IntBody(s)[i])

RECURSIVE DigitsVal(_)
DigitsVal(d) ==
    IF d = <<>> THEN 0
    ELSE 10 * DigitsVal(SubSeq(d, 1, Len(d) - 1)) + DigitVal(d[Len(d)])

IntVal(s) ==
    IF Head(strip(s)) = "-" THEN 0 - DigitsVal(IntBody(s)) ELSE DigitsVal(IntBody(s))

\* x, y, z = map(int, coord.split("_")) does not raise ValueError
ParsesXYZ(coord) ==
    LET parts == split(coord, "_")
    IN  Len(parts) = 3 /\ \A i \in 1..3 : IsInt(parts[i])

ParseXYZ(coord) ==
    LET parts == split(coord, "_")
    IN  <<IntVal(parts[1]), IntVal(parts[2]), IntVal(parts[3])>>

\* str(n) for an int, as an f-string formats it
RECURSIVE NatStr(_)
NatStr(n) ==
    IF n < 10 THEN <<Digits[n + 1]>>
    ELSE NatStr(n \div 10) \o <<Digits[(n % 10) + 1]>>

IntStr(n) == IF n < 0 THEN <<"-">> \o NatStr(0 - n) ELSE NatStr(n)

\* f"{x},{y},{z}"
EchoXYZ(p) == IntStr(p[1]) \o <<",">> \o IntStr(p[2]) \o <<",">> \o IntStr(p[3])

-----------------------------------------------------------------------------
(* The store *)

Studies == 1..MaxStudy

\* stored terms: "terms_abstract_tfidf__a", "..._b_c" and "..._b c"
StoredTerms == { prefix \o <<"a">>,
                 prefix \o <<"b", "_", "c">>,
                 prefix \o <<"b", " ", "c">> }

\* path terms: "A ", "b_c" and "terms_abstract_tfidf__b_c"
TermInputs == { <<"A", " ">>,
                <<"b", "_", "c">>,
                prefix \o <<"b", "_", "c">> }

Points == { <<0, 0, 0>>, <<0, 0, 1>>, <<0 - 1, 2, 3>> }

\* path coordinates: "0_0_0", "-1_2_3", "0_0_x" and "1_2"
CoordInputs == { <<"0", "_", "0", "_", "0">>,
                 <<"-", "1", "_", "2", "_", "3">>,
                 <<"0", "_", "0", "_", "x">>,
                 <<"1", "_", "2">> }

AnnotationRows == [study_id : Studies, contrast_id : 1..MaxContrast, term : StoredTerms]

\* ST_X(geom), ST_Y(geom), ST_Z(geom) of a row are its x, y, z
CoordinateRows ==
    { [study_id |-> s, x |-> p[1], y |-> p[2], z |-> p[3]] : s \in Studies, p \in Points }

\* ns.metadata holds one row per study_id; a study may have none.
MetadataTables ==
    { {[study_id |-> s, title |-> "T"] : s \in D} : D \in {Studies, Studies \ {MaxStudy}} }

-----------------------------------------------------------------------------
(* The statements.  A statement's FROM/JOIN/WHERE yields joined rows; each  *)
(* is kept together with its projection on the SELECT list.                  *)

Project(src, rec) == [src |-> src, rec |-> rec]

\* SELECT (no DISTINCT): every joined row contributes its projection
SelectAll(T) == T

\* SELECT DISTINCT: one row per distinct projection
SelectDistinct(T) == { CHOOSE t \in T : t.rec = u.rec : u \in T }

\* LIMIT n without ORDER BY: any n of the rows, in any order
Limit(T, n) ==
    LET k == IF Cardinality(T) < n THEN Cardinality(T) ELSE n
    IN  { [i \in 1..k |-> f[i].rec] :
            f \in {g \in [1..k -> T] : \A i, j \in 1..k : i # j => g[i] # g[j]} }

\* SELECT DISTINCT term FROM ns.annotations_terms LIMIT 100000
TermsSampleQuery ==
    Limit(SelectDistinct({ Project(s, s.term) : s \in annotations }), LimitSample)

\* get_studies_by_term: ... WHERE s.term = :term LIMIT 10000
StudiesByTermQuery(term) ==
    Limit(SelectDistinct(
        { Project(j, [study_id |-> j[1].study_id, title |-> j[2].title]) :
            j \in { sm \in annotations \X metadata :
                        /\ sm[1].study_id = sm[2].study_id
                        /\ sm[1].term = term } }), LimitStudies)
StudyTitle(m) == [study_id |-> m.study_id, title |-> m.title]

\* functional_dissociation, first statement: term_a and not term_b
TermANotBQuery(term_a, term_b) ==
    Limit(SelectDistinct(
        { Project(j, StudyTitle(j[2])) :
            j \in { am \in annotations \X metadata :
                        /\ am[1].study_id = am[2].study_id
                        /\ am[1].term = term_a
                        /\ ~ \E b \in annotations :
                               b.study_id = am[1].study_id /\ b.term = term_b } }),
        LimitDissociate)

\* functional_dissociation, second statement: term_b and not term_a
TermBNotAQuery(term_a, term_b) ==
    Limit(SelectDistinct(
        { Project(j, StudyTitle(j[2])) :
            j \in { bm \in annotations \X metadata :
                        /\ bm[1].study_id = bm[2].study_id
                        /\ bm[1].term = term_b
                        /\ ~ \E a \in annotations :
                               a.study_id = bm[1].study_id /\ a.term = term_a } }),
        LimitDissociate)

\* intersect_terms: a JOIN b JOIN m WHERE a.term = :term_a AND b.term = :term_b
IntersectQuery(term_a, term_b) ==
    Limit(SelectDistinct(
        { Project(j, StudyTitle(j[3])) :
            j \in { abm \in annotations \X annotations \X metadata :
                        /\ abm[1].study_id = abm[2].study_id
                        /\ abm[1].study_id = abm[3].study_id
                        /\ abm[1].term = term_a
                        /\ abm[2].term = term_b } }),
        LimitIntersect)

\* ST_X(c.geom) = :x AND ST_Y(c.geom) = :y AND ST_Z(c.geom) = :z
AtPoint(c, p) == c.x = p[1] /\ c.y = p[2] /\ c.z = p[3]

\* dissociate_coordinates, first statement: coordinate 1 and not coordinate 2
Coord1Not2Query(p1, p2) ==
    Limit(SelectDistinct(
        { Project(j, StudyTitle(j[2])) :
            j \in { cm \in coordinates \X metadata :
                        /\ cm[1].study_id = cm[2].study_id
                        /\ AtPoint(cm[1], p1)
                        /\ ~ \E c2 \in coordinates :
                               c2.study_id = cm[1].study_id /\ AtPoint(c2, p2) } }),
        LimitLocations)

\* the second statement without its NOT EXISTS
Coord2Not1Query_noexists(p1, p2) ==
    Limit(SelectDistinct(
        { Project(j, StudyTitle(j[2])) :
            j \in { cm \in coordinates \X metadata :
                        /\ cm[1].study_id = cm[2].study_id
                        /\ AtPoint(cm[1], p2) } }),
        LimitLocations)

\* dissociate_coordinates, second statement: coordinate 2 and not coordinate 1
Coord2Not1Query(p1, p2) ==
    Limit(SelectDistinct(
        { Project(j, StudyTitle(j[2])) :
            j \in { cm \in coordinates \X metadata :
                        /\ cm[1].study_id = cm[2].study_id
                        /\ AtPoint(cm[1], p2)
                        /\ ~ \E c1 \in coordinates :
                               c1.study_id = cm[1].study_id /\ AtPoint(c1, p1) } }),
        LimitLocations)

-----------------------------------------------------------------------------
(* Responses *)

None == <<>>

NoResponse == [status |-> 0, kind |-> "none", body |-> None]

\* jsonify({"error": str(e)}), status
JsonError(status, msg) ==
    [status |-> status, kind |-> "object", body |-> [error |-> msg]]

\* Flask's answer to an exception that leaves the view function
Flask500 == [status |-> 500, kind |-> "html", body |-> None]

\* jsonify(list)
JsonArray(list) == [status |-> 200, kind |-> "array", body |-> list]

\* Response(json.dumps(OrderedDict(...)), mimetype="application/json")
JsonObject(fields) == [status |-> 200, kind |-> "object", body |-> fields]

Routes == {"get_terms_sample", "get_studies_by_term", "functional_dissociation",
           "intersect_terms", "dissociate_coordinates"}

\* the view functions whose with-block is inside try/except Exception
Guarded == Routes \ {"get_terms_sample"}

\* a handler that answers a failure with the rows it already has
Raised_partial(r, msg) ==
    IF r = "functional_dissociation" /\ Len(stmt_txn) = 1
    THEN [status |-> 500, kind |-> "object",
          body |-> [error |-> msg, term_a_not_term_b |-> rows_a]]
    ELSE IF r \in Guarded THEN JsonError(500, msg) ELSE Flask500

\* an exception raised inside the with-block of the route
Raised(r, msg) == IF r \in Guarded THEN JsonError(500, msg) ELSE Flask500
-----------------------------------------------------------------------------
(* Initial states *)

RECURSIVE SubsetsUpTo(_, _)
SubsetsUpTo(S, k) ==
    IF k = 0 THEN {{}}
    ELSE LET R == SubsetsUpTo(S, k - 1)
         IN  R \cup { T \cup {x} : T \in R, x \in S }

InitRequest ==
    /\ pc = "idle"
    /\ eng = "None"
    /\ route = "none"
    /\ args = None
    /\ display = None
    /\ bound = None
    /\ pool_out = 0
    /\ begun = 0
    /\ stmt_txn = <<>>
    /\ rows_a = None
    /\ rows_b = None
    /\ response = NoResponse
    /\ raised = "none"

Init ==
    /\ db_url \in BOOLEAN
    /\ _engine = "None"
    /\ \E k \in 0..MaxRows :
         /\ annotations \in SubsetsUpTo(AnnotationRows, k)
         /\ coordinates \in SubsetsUpTo(CoordinateRows, MaxRows - k)
    /\ metadata \in MetadataTables
    /\ InitRequest
    /\ n_x = None /\ n_y = None /\ n_out = None

-----------------------------------------------------------------------------
(* get_engine *)

\* get_engine() raises RuntimeError: no engine yet and DB_URL missing
get_engine_raises == _engine = "None" /\ ~db_url

\* a view function is entered for a new request
Routed(r, a, b) ==
    /\ pc = "idle"
    /\ route' = r
    /\ args' = <<a, b>>
    /\ UNCHANGED <<db_url, annotations, coordinates, metadata, pool_out, begun,
                   stmt_txn, rows_a, rows_b, normVars>>

\* eng = get_engine() raised: the exception leaves the view function
EngineFailed ==
    /\ get_engine_raises
    /\ UNCHANGED _engine
    /\ eng' = "None"
    /\ display' = None
    /\ bound' = None
    /\ pc' = "done"
    /\ raised' = "get_engine"
    /\ response' = Flask500

\* eng = get_engine() returned the engine, created if there was none
EngineObtained ==
    /\ ~get_engine_raises
    /\ _engine' = "Engine"
    /\ eng' = "Engine"

-----------------------------------------------------------------------------
(* The view functions up to their with-block *)

get_terms_sample_call ==
    /\ Routed("get_terms_sample", None, None)
    /\ \/ EngineFailed
       \/ /\ EngineObtained
          /\ display' = None
          /\ bound' = None
          /\ pc' = "begin"
          /\ raised' = "none"
          /\ response' = NoResponse

\* the term get_studies_by_term binds
studies_term_db(term) == normalize_term(term)

get_studies_by_term_call(term) ==
    /\ Routed("get_studies_by_term", term, None)
    /\ \/ EngineFailed
       \/ /\ EngineObtained
          /\ display' = None
          /\ bound' = <<studies_term_db(term)>>
          /\ pc' = "begin"
          /\ raised' = "none"
          /\ response' = NoResponse

\* the term functional_dissociation and intersect_terms bind
term_db(term) == normalize_term(display_term(term))

functional_dissociation_call(term_a, term_b) ==
    /\ Routed("functional_dissociation", term_a, term_b)
    /\ \/ EngineFailed
       \/ /\ EngineObtained
          /\ display' = <<display_term(term_a), display_term(term_b)>>
          /\ bound' = <<term_db(term_a), term_db(term_b)>>
          /\ pc' = "begin"
          /\ raised' = "none"
          /\ response' = NoResponse

intersect_terms_call(term_a, term_b) ==
    /\ Routed("intersect_terms", term_a, term_b)
    /\ \/ EngineFailed
       \/ /\ EngineObtained
          /\ display' = <<display_term(term_a), display_term(term_b)>>
          /\ bound' = <<term_db(term_a), term_db(term_b)>>
          /\ pc' = "begin"
          /\ raised' = "none"
          /\ response' = NoResponse

dissociate_coordinates_call(coord1, coord2) ==
    /\ Routed("dissociate_coordinates", coord1, coord2)
    /\ \/ EngineFailed
       \/ /\ EngineObtained
          /\ IF ParsesXYZ(coord1) /\ ParsesXYZ(coord2)
             THEN /\ bound' = <<ParseXYZ(coord1), ParseXYZ(coord2)>>
                  /\ display' = <<EchoXYZ(ParseXYZ(coord1)), EchoXYZ(ParseXYZ(coord2))>>
                  /\ pc' = "begin"
                  /\ raised' = "none"
                  /\ response' = NoResponse
             ELSE /\ bound' = None
                  /\ display' = None
                  /\ pc' = "done"
                  /\ raised' = "ValueError"
                  /\ response' = JsonError(400, "Coordinates must be in x_y_z format and integers.")
-----------------------------------------------------------------------------
(* The with-block: with eng.begin() as conn *)

InBlock(r, at) == pc = at /\ route = r

\* a with-block that keeps its connection when an exception leaves it
BlockRaises_leak(msg) ==
    /\ pool_out' = pool_out
    /\ pc' = "done"
    /\ raised' = msg
    /\ response' = Raised(route, msg)

\* leaving the with-block on an exception: rollback, the connection goes back
\* to the pool, and the exception reaches the route's handler (or Flask)
BlockRaises(msg) ==
    /\ pool_out' = pool_out - 1
    /\ pc' = "done"
    /\ raised' = msg
    /\ response' = Raised(route, msg)

\* eng.begin(): a connection is checked out and a transaction begun, or the
\* connection attempt raises
eng_begin ==
    /\ pc = "begin"
    /\ \E ok \in BOOLEAN :
         IF ok
         THEN /\ pool_out' = pool_out + 1
              /\ begun' = begun + 1
              /\ pc' = "execute_1"
              /\ UNCHANGED <<response, raised>>
         ELSE /\ pc' = "done"
              /\ raised' = "connect"
              /\ response' = Raised(route, "connect")
              /\ UNCHANGED <<pool_out, begun>>
    /\ UNCHANGED <<storeVars, eng, route, args, display, bound, stmt_txn,
                   rows_a, rows_b, normVars>>

\* conn.execute(...) of the first statement of the block
Execute1(results, next) ==
    /\ \E ok \in BOOLEAN :
         IF ok
         THEN /\ \E rows \in results : rows_a' = rows
              /\ stmt_txn' = Append(stmt_txn, begun)
              /\ pc' = next
              /\ UNCHANGED <<pool_out, response, raised>>
         ELSE /\ BlockRaises("execute")
              /\ UNCHANGED <<rows_a, stmt_txn>>
    /\ UNCHANGED <<storeVars, eng, route, args, display, bound, begun, rows_b, normVars>>

\* conn.execute(...) of the second statement of the block
Execute2(results, next) ==
    /\ \E ok \in BOOLEAN :
         IF ok
         THEN /\ \E rows \in results : rows_b' = rows
              /\ stmt_txn' = Append(stmt_txn, begun)
              /\ pc' = next
              /\ UNCHANGED <<pool_out, response, raised>>
         ELSE /\ BlockRaises("execute")
              /\ UNCHANGED <<rows_b, stmt_txn>>
    /\ UNCHANGED <<storeVars, eng, route, args, display, bound, begun, rows_a, normVars>>

\* leaving the with-block normally: commit, the connection goes back to the
\* pool, and the view function returns its response; a failing commit raises
Return(resp) ==
    /\ \E ok \in BOOLEAN :
         IF ok
         THEN /\ pool_out' = pool_out - 1
              /\ pc' = "done"
              /\ response' = resp
              /\ UNCHANGED raised
         ELSE BlockRaises("commit")
    /\ UNCHANGED <<storeVars, eng, route, args, display, bound, begun, stmt_txn,
                   rows_a, rows_b, normVars>>

get_terms_sample_execute ==
    /\ InBlock("get_terms_sample", "execute_1")
    /\ Execute1(TermsSampleQuery, "return")

get_terms_sample_return ==
    /\ InBlock("get_terms_sample", "return")
    /\ Return(JsonArray(rows_a))

get_studies_by_term_execute ==
    /\ InBlock("get_studies_by_term", "execute_1")
    /\ Execute1(StudiesByTermQuery(bound[1]), "return")

get_studies_by_term_return ==
    /\ InBlock("get_studies_by_term", "return")
    /\ Return(JsonArray(rows_a))

functional_dissociation_execute_a ==
    /\ InBlock("functional_dissociation", "execute_1")
    /\ Execute1(TermANotBQuery(bound[1], bound[2]), "execute_2")

functional_dissociation_execute_b ==
    /\ InBlock("functional_dissociation", "execute_2")
    /\ Execute2(TermBNotAQuery(bound[1], bound[2]), "return")

functional_dissociation_return ==
    /\ InBlock("functional_dissociation", "return")
    /\ Return(JsonObject([term_a |-> display[1], term_b |-> display[2],
                          term_a_not_term_b |-> rows_a,
                          term_b_not_term_a |-> rows_b]))

intersect_terms_execute ==
    /\ InBlock("intersect_terms", "execute_1")
    /\ Execute1(IntersectQuery(bound[1], bound[2]), "return")

intersect_terms_return ==
    /\ InBlock("intersect_terms", "return")
    /\ Return(JsonObject([term_a |-> display[1], term_b |-> display[2],
                          term_a_and_term_b |-> rows_a]))

dissociate_coordinates_execute_1 ==
    /\ InBlock("dissociate_coordinates", "execute_1")
    /\ Execute1(Coord1Not2Query(bound[1], bound[2]), "execute_2")

dissociate_coordinates_execute_2 ==
    /\ InBlock("dissociate_coordinates", "execute_2")
    /\ Execute2(Coord2Not1Query(bound[1], bound[2]), "return")

dissociate_coordinates_return ==
    /\ InBlock("dissociate_coordinates", "return")
    /\ Return(JsonObject([coordinate_1 |-> display[1], coordinate_2 |-> display[2],
                          coordinate_1_not_coordinate_2 |-> rows_a,
                          coordinate_2_not_coordinate_1 |-> rows_b]))

\* the response has been sent and the locals of the view function are gone;
\* the worker waits for the next request
request_finished ==
    /\ pc = "done"
    /\ pc' = "idle"
    /\ eng' = "None"
    /\ route' = "none"
    /\ args' = None
    /\ display' = None
    /\ bound' = None
    /\ begun' = 0
    /\ stmt_txn' = <<>>
    /\ rows_a' = None
    /\ rows_b' = None
    /\ response' = NoResponse
    /\ raised' = "none"
    /\ UNCHANGED <<storeVars, pool_out, normVars>>

-----------------------------------------------------------------------------
(* The service *)

Next ==
    \/ get_terms_sample_call
    \/ \E term \in TermInputs : get_studies_by_term_call(term)
    \/ \E term_a, term_b \in TermInputs : functional_dissociation_call(term_a, term_b)
    \/ \E term_a, term_b \in TermInputs : intersect_terms_call(term_a, term_b)
    \/ \E coord1, coord2 \in CoordInputs : dissociate_coordinates_call(coord1, coord2)
    \/ eng_begin
    \/ get_terms_sample_execute
    \/ get_terms_sample_return
    \/ get_studies_by_term_execute
    \/ get_studies_by_term_return
    \/ functional_dissociation_execute_a
    \/ functional_dissociation_execute_b
    \/ functional_dissociation_return
    \/ intersect_terms_execute
    \/ intersect_terms_return
    \/ dissociate_coordinates_execute_1
    \/ dissociate_coordinates_execute_2
    \/ dissociate_coordinates_return
    \/ request_finished

Spec == Init /\ [][Next]_vars
-----------------------------------------------------------------------------
(* normalize_term on its own: an input, a variant of it that differs in     *)
(* letter case and surrounding whitespace, and the results.                  *)

\* U+017F, LATIN SMALL LETTER LONG S: str.lower() leaves it, str.upper() is "S"
LongS == "U+017F"

NormAlphabet == {"a", "B", " ", "_", LongS}

NormHeads == { <<>>, prefix, SubSeq(prefix, 1, Len(prefix) - 1),
               <<"T","e","r","m","s","_","A","B","S","T","R","A","C","T","_",
                 "t","f","i","d","f","_","_">> }

NormInputs ==
    { h \o b : h \in NormHeads,
               b \in UNION { [1..n -> NormAlphabet] : n \in 0..MaxBody } }

\* str.upper() of one character
UpperOf(c) == IF c = LongS THEN "S" ELSE UpperChar(c)

RECURSIVE upper(_)
upper(s) == IF s = <<>> THEN <<>> ELSE <<UpperOf(Head(s))>> \o upper(Tail(s))

Pads == { <<>>, <<" ">>, <<"\t", " ">> }

IsAscii(s) == \A i \in 1..Len(s) : s[i] # LongS

\* x with its letter case changed and whitespace added around it
Variants(x) == { l \o c \o r : l \in Pads, r \in Pads, c \in {x, upper(x), lower(x)} }

InitNormalize ==
    /\ db_url = FALSE
    /\ _engine = "None"
    /\ annotations = {}
    /\ coordinates = {}
    /\ metadata = {}
    /\ InitRequest
    /\ n_x \in NormInputs
    /\ n_y \in Variants(n_x)
    /\ n_out = <<>>

normalize_term_call ==
    /\ n_out = <<>>
    /\ n_out' = <<normalize_term(n_x), normalize_term(n_y)>>
    /\ UNCHANGED <<storeVars, reqVars, n_x, n_y>>

normalize_term_again ==
    /\ Len(n_out) = 2
    /\ n_out' = Append(n_out, normalize_term(n_out[1]))
    /\ UNCHANGED <<storeVars, reqVars, n_x, n_y>>

NextNormalize == normalize_term_call \/ normalize_term_again

SpecNormalize == InitNormalize /\ [][NextNormalize]_vars
-----------------------------------------------------------------------------
(* Properties *)

StudyIds(list) == { list[i].study_id : i \in 1..Len(list) }

NoDuplicateStudy(list) ==
    \A i, j \in 1..Len(list) : i # j => list[i].study_id # list[j].study_id

\* the request routed to r was answered with its success response
Answered(r) == pc = "done" /\ route = r /\ response.status = 200

HasTermRow(s, t) == \E r \in annotations : r.study_id = s /\ r.term = t

HasPointRow(s, p) ==
    \E c \in coordinates : c.study_id = s /\ c.x = p[1] /\ c.y = p[2] /\ c.z = p[3]

HasMetadata(s) == \E m \in metadata : m.study_id = s

\* the storage form of a path term: the term /terms/{term}/studies looks up
StorageForm(t) == normalize_term(t)

\* C1: every study_id in the A-not-B list of a dissociation has a row matching
\* A and no row matching B, and likewise for the B-not-A list; a term row
\* matches a path term when its term is the storage form of that path term, a
\* coordinate row matches when x, y, z equal the parsed integers.
C1_DissociationListsMatchInputs ==
    /\ Answered("functional_dissociation") =>
         /\ \A s \in StudyIds(response.body.term_a_not_term_b) :
                /\ HasTermRow(s, StorageForm(args[1]))
                /\ ~HasTermRow(s, StorageForm(args[2]))
         /\ \A s \in StudyIds(response.body.term_b_not_term_a) :
                /\ HasTermRow(s, StorageForm(args[2]))
                /\ ~HasTermRow(s, StorageForm(args[1]))
    /\ Answered("dissociate_coordinates") =>
         /\ \A s \in StudyIds(response.body.coordinate_1_not_coordinate_2) :
                /\ HasPointRow(s, ParseXYZ(args[1]))
                /\ ~HasPointRow(s, ParseXYZ(args[2]))
         /\ \A s \in StudyIds(response.body.coordinate_2_not_coordinate_1) :
                /\ HasPointRow(s, ParseXYZ(args[2]))
                /\ ~HasPointRow(s, ParseXYZ(args[1]))

\* C2: /intersect/terms/A/B lists only study_ids that have an annotation row
\* whose term is the storage form of A and one whose term is the storage form
\* of B.
C2_IntersectionListsMatchInputs ==
    Answered("intersect_terms") =>
        \A s \in StudyIds(response.body.term_a_and_term_b) :
            /\ HasTermRow(s, StorageForm(args[1]))
            /\ HasTermRow(s, StorageForm(args[2]))

C4_MalformedIs400WithoutStoreAccess ==
    ( /\ pc = "done"
      /\ route = "dissociate_coordinates"
      /\ ~(ParsesXYZ(args[1]) /\ ParsesXYZ(args[2])) )
    => /\ response.status = 400
       /\ response.kind = "object"
       /\ DOMAIN response.body = {"error"}
       /\ eng = "None"
       /\ begun = 0
       /\ stmt_txn = <<>>

\* C5: on each of the five routes a failure of get_engine, of connecting or of
\* executing is answered by the handler with status 500 and {"error": message}.
C5_StoreFailureIsJson500 ==
    (pc = "done" /\ raised \in {"get_engine", "connect", "execute", "commit"})
    => /\ response.status = 500
       /\ response.kind = "object"
       /\ DOMAIN response.body = {"error"}

ListKeys(r) ==
    IF r = "functional_dissociation"
    THEN {"term_a_not_term_b", "term_b_not_term_a"}
    ELSE {"coordinate_1_not_coordinate_2", "coordinate_2_not_coordinate_1"}

BodyKeys == IF response.kind = "object" THEN DOMAIN response.body ELSE {}

\* C6: a dissociation's response carries a result list only if both statements
\* succeeded, and then it carries both; a failure of either statement is
\* answered by the error response with neither list.
C6_NoPartialDissociation ==
    (pc = "done" /\ route \in {"functional_dissociation", "dissociate_coordinates"})
    => /\ (BodyKeys \cap ListKeys(route) # {}) =>
             /\ ListKeys(route) \subseteq BodyKeys
             /\ response.status = 200
             /\ raised = "none"
             /\ Len(stmt_txn) = 2
       /\ response.status = 200 => ListKeys(route) \subseteq BodyKeys
       /\ raised # "none" =>
             /\ BodyKeys \cap ListKeys(route) = {}
             /\ response.status # 200

\* the first statement returned rows and the second raised
C6_Witness ==
    /\ pc = "done"
    /\ route = "functional_dissociation"
    /\ raised = "execute"
    /\ Len(stmt_txn) = 1
    /\ rows_a # <<>>

\* C7: normalize_term is idempotent, insensitive to letter case and to
\* surrounding whitespace, and its result starts with the storage prefix.
C7_NormalizeInsensitive ==
    /\ Len(n_out) >= 2 =>
         /\ startswith(n_out[1], prefix)
         /\ n_out[1] = n_out[2]
    /\ Len(n_out) = 3 => n_out[3] = n_out[1]

\* C7 as amended: the case-insensitivity is for strings of ASCII letters; a
\* variant that only adds whitespace or lower-cases is equal for every string.
C7_NormalizeInsensitiveAscii ==
    /\ Len(n_out) >= 2 =>
         /\ startswith(n_out[1], prefix)
         /\ ( \/ IsAscii(n_x)
              \/ \E l, r \in Pads : n_y \in {l \o n_x \o r, l \o lower(n_x) \o r} )
            => n_out[1] = n_out[2]
    /\ Len(n_out) = 3 => n_out[3] = n_out[1]

\* an input with an upper-case letter and a variant with other case and
\* whitespace around it, normalized and normalized again
C7_Witness ==
    /\ Len(n_out) = 3
    /\ IsAscii(n_x)
    /\ lower(n_x) # n_x
    /\ lower(n_y) # lower(n_x)
    /\ upper(strip(n_y)) = upper(n_x)
    /\ strip(n_y) # n_x

\* C8: in /dissociate/terms and /intersect/terms the term bound into the
\* statements is normalize_term of the path term, the storage form that
\* /terms/{term}/studies binds for the same input.
C8_BoundTermIsStorageForm ==
    (route \in {"functional_dissociation", "intersect_terms"} /\ bound # None)
    => /\ bound[1] = studies_term_db(args[1])
       /\ bound[2] = studies_term_db(args[2])

\* C9: a request holds no connection when its response is produced, whatever
\* the exit path; inside the with-block it holds exactly one, and every
\* statement of the request ran under the one transaction begun.
C9_ConnectionReleased ==
    /\ pc \in {"idle", "begin", "done"} => pool_out = 0
    /\ pc \in {"execute_1", "execute_2", "return"} => pool_out = 1
    /\ begun <= 1
    /\ \A i \in 1..Len(stmt_txn) : stmt_txn[i] = 1

\* the second statement of a location dissociation raised
C9_Witness ==
    /\ pc = "done"
    /\ route = "dissociate_coordinates"
    /\ raised = "execute"
    /\ Len(stmt_txn) = 1
    /\ begun = 1

\* the studies with a metadata row that qualify for "ta and not tb"
TermOnly(ta, tb) ==
    { s \in Studies : HasMetadata(s) /\ HasTermRow(s, ta) /\ ~HasTermRow(s, tb) }

PointOnly(p1, p2) ==
    { s \in Studies : HasMetadata(s) /\ HasPointRow(s, p1) /\ ~HasPointRow(s, p2) }

\* the lists of the request with the inputs exchanged hold the same studies
SwappedTermsAgree ==
    /\ \A L \in TermANotBQuery(term_db(args[2]), term_db(args[1])) :
          StudyIds(L) = StudyIds(response.body.term_b_not_term_a)
    /\ \A L \in TermBNotAQuery(term_db(args[2]), term_db(args[1])) :
          StudyIds(L) = StudyIds(response.body.term_a_not_term_b)

SwappedCoordinatesAgree ==
    /\ \A L \in Coord1Not2Query(ParseXYZ(args[2]), ParseXYZ(args[1])) :
          StudyIds(L) = StudyIds(response.body.coordinate_2_not_coordinate_1)
    /\ \A L \in Coord2Not1Query(ParseXYZ(args[2]), ParseXYZ(args[1])) :
          StudyIds(L) = StudyIds(response.body.coordinate_1_not_coordinate_2)

\* C10: the B-not-A list of dissociate(A, B) holds the same studies as the
\* A-not-B list of dissociate(B, A), and vice versa, also when more studies
\* qualify than the statement's LIMIT.
C10_SymmetricUnderSwap ==
    /\ Answered("functional_dissociation") => SwappedTermsAgree
    /\ Answered("dissociate_coordinates") => SwappedCoordinatesAgree

\* C10 as amended: the lists agree when no more studies qualify, in either
\* direction, than the statement's LIMIT.
C10_SymmetricWithinLimit ==
    /\ ( /\ Answered("functional_dissociation")
         /\ Cardinality(TermOnly(bound[1], bound[2])) <= LimitDissociate
         /\ Cardinality(TermOnly(bound[2], bound[1])) <= LimitDissociate )
       => SwappedTermsAgree
    /\ ( /\ Answered("dissociate_coordinates")
         /\ Cardinality(PointOnly(bound[1], bound[2])) <= LimitLocations
         /\ Cardinality(PointOnly(bound[2], bound[1])) <= LimitLocations )
       => SwappedCoordinatesAgree

\* a location dissociation of two different points listed a study on each side
C10_Witness ==
    /\ Answered("dissociate_coordinates")
    /\ bound[1] # bound[2]
    /\ response.body.coordinate_1_not_coordinate_2 # <<>>
    /\ response.body.coordinate_2_not_coordinate_1 # <<>>
====
